---- MODULE Spec2Model ----
(***************************************************************************)
(* Model of run_watcher's polling pipeline: RunPoller (poller.py), the     *)
(* part of GitHubClient it calls (github_client.py) and the calls the      *)
(* application makes on the poller from the UI thread (app.py).            *)
(*                                                                         *)
(* Two execution contexts exist.  RunPoller.start() runs on a worker       *)
(* thread with its own event loop (app.py start_poller, thread=True);      *)
(* add_repository, remove_repository, on_update and stop are plain         *)
(* methods called from the UI thread.  They share watched_repos (a Python  *)
(* set), callbacks (a list) and running (a bool) without any lock, so a    *)
(* UI call can fall between any two steps of the poller.                   *)
(***************************************************************************)
EXTENDS Integers, Sequences, FiniteSets, TLC

\* ------------------------------------------------------------------ inputs
\* repository identifiers offered to add_repository / remove_repository
Repos == {"acme/widgets", "acme/gadgets"}

\* callables offered to on_update, in the order they are offered (nothing
\* in the poller tells one callable from another, so one order stands for all)
SubOrder == <<"s1", "s2">>

Subs == {SubOrder[i] : i \in 1..Len(SubOrder)}

\* run identifiers the source can report, most recent first
RunLists == {<< >>, <<2, 1>>}

\* RunPoller.interval as constructed for the model (seconds = ticks)
Interval == 2

\* the limit poll_once passes to get_recent_runs
PollLimit == 10

\* what one call of the source can do: each PyGithub call returns, raises
\* GithubException, or raises something else (a network error, say)
CallOutcomes == {"ok", "github_exception", "other_exception"}

SourceResponses ==
    [get_repo : CallOutcomes, get_workflow_runs : CallOutcomes, runs : RunLists]

\* ----------------------------------------------------------------- helpers
Min(a, b) == IF a < b THEN a ELSE b

Range(s) == {s[i] : i \in 1..Len(s)}

Raise == [kind |-> "raise"]

Return(v) == [kind |-> "return", value |-> v]

\* GitHubClient.get_repository: the repository, None on GithubException
get_repository(resp) ==
    CASE resp.get_repo = "ok" -> Return("repo")
      [] resp.get_repo = "github_exception" -> Return("None")
      [] OTHER -> Raise

\* GitHubClient.get_recent_runs: [] for an unknown repository or a
\* GithubException, the first `limit` runs otherwise; any other exception
\* is not caught here
get_recent_runs(resp, limit) ==
    LET repo == get_repository(resp) IN
    CASE repo.kind = "raise" -> Raise
      [] repo.value = "None" -> Return(<< >>)
      [] resp.get_workflow_runs = "github_exception" -> Return(<< >>)
      [] resp.get_workflow_runs = "other_exception" -> Raise
      [] OTHER -> Return(SubSeq(resp.runs, 1, Min(limit, Len(resp.runs))))

\* ------------------------------------------------------------------- state
VARIABLES
    watched_repos,  \* RunPoller.watched_repos, a Python set
    callbacks,      \* RunPoller.callbacks, in registration order
    running,        \* RunPoller.running
    pc,             \* where the start() coroutine stands
    si_used,        \* set iterator: size of the set when iter() was called
    si_rest,        \* set iterator: members in slots it has not passed yet
    si_started,     \* set iterator: it has yielded at least one member
    repo_name,      \* poll_once's loop variable
    runs,           \* poll_once's local `runs`
    cb_idx,         \* list iterator of `for callback in self.callbacks`
    tick,           \* the `_` of `for _ in range(self.interval)`
    \* history of the cycle in flight (or of the last one), for the properties
    phase,          \* "none", "cycle", "done" (poll_once returned), "raised"
    startSet,       \* watched_repos when the cycle's iteration began
    startSubs,      \* callbacks when the cycle's iteration began
    fetchlog,       \* repositories whose fetch was started, in order
    result,         \* per repository, what its last fetch of the cycle did
    log,            \* subscriber invocations, in order
    mutated,        \* watched_repos changed while the cycle was in flight
    uiops,          \* changes of watched_repos while the cycle was in flight
    dropped,        \* per repository: "no", or removed by remove_repository
                    \* and not added again: "out" (removed before the cycle
                    \* of this history began), "mid" (removed after that)
    stopAt,         \* "no", or the part of start() in which stop() was first
                    \* called on the running poller: "loop", "cycle", "sleep"
    ticksAfterStop, \* sleep ticks that elapsed after that stop()
    fetchedAfterStop,\* a fetch was started after a stop() that came mid-cycle
    \* a call of one of GitHubClient's / RunInfo's functions on its own
    fn,             \* the call: its name, its argument, and its outcome once made
    \* a second call of start() on the same poller
    stopReq,        \* stop() has been called since the thread was launched
    pc2,            \* where the second start() coroutine stands
    tick2,          \* its `_` of `for _ in range(self.interval)`
    \* RunWatcherApp and its widgets
    app,            \* "init" (constructed), "mounted", "exited"
    github_client,  \* RunWatcherApp.github_client: None or the client
    saved,          \* the watched_repos list of the config file
    repos,          \* RepoList.repos, one RepoListItem per member, in order
    latest,         \* per repository, its RepoListItem's latest_run
    latest_by,      \* per repository, who assigned that latest_run last
    current_repo,   \* RunWatcherApp.current_repo
    runs_panel,     \* RunsList.runs
    rf              \* the refresh_repo worker: its state, its repo_name, its runs

vars == <<watched_repos, callbacks, running, pc, si_used, si_rest, si_started,
          repo_name, runs, cb_idx, tick, phase, startSet, startSubs, fetchlog,
          result, log, mutated, uiops, dropped, stopAt, ticksAfterStop,
          fetchedAfterStop, fn, stopReq, pc2, tick2, app, github_client,
          saved, repos, latest, latest_by, current_repo, runs_panel, rf>>

appVars == <<app, github_client, saved, repos, latest, latest_by,
             current_repo, runs_panel, rf>>

\* what neither the first start() coroutine nor the application touches
aside == <<fn, stopReq, pc2, tick2>>

\* the state no method of RunPoller reads or writes
elsewhere == <<aside, appVars>>

\* no call of a function on its own is under way
NoCall == [op |-> "none"]

pollerVars == <<pc, si_used, si_rest, si_started, repo_name, runs, cb_idx, tick>>

cycleHist == <<phase, startSet, startSubs, fetchlog, result, log>>

\* changes of watched_repos the model lets fall inside one cycle
MaxCycleOps == 2

NoRepo == "none"

NotFetched == [kind |-> "none"]

\* positions of start() at which poll_once's set iterator is alive
IterStates == {"next", "fetch", "notify", "handle", "setruns"}

\* positions of start() from `self.running = True` on
BodyStates == {"while", "poll", "next", "fetch", "notify", "handle", "setruns", "sleep",
               "tick"}

\* RunPoller.__init__
RunPoller_init ==
    /\ watched_repos = {}
    /\ callbacks = << >>
    /\ running = FALSE
    /\ pc = "idle"
    /\ si_used = 0
    /\ si_rest = {}
    /\ si_started = FALSE
    /\ repo_name = NoRepo
    /\ runs = << >>
    /\ cb_idx = 0
    /\ tick = 0
    /\ phase = "none"
    /\ startSet = {}
    /\ startSubs = << >>
    /\ fetchlog = << >>
    /\ result = [r \in Repos |-> NotFetched]
    /\ log = << >>
    /\ mutated = FALSE
    /\ uiops = 0
    /\ dropped = [r \in Repos |-> "no"]
    /\ stopAt = "no"
    /\ ticksAfterStop = 0
    /\ fetchedAfterStop = FALSE

\* the application's poller as constructed; no function is called on its own
\* RepoListItem.latest_run of an item that has no run (None)
NoRun == 0

\* the refresh_repo worker is not running
NoRefresh == [st |-> "idle", repo |-> NoRepo, runs |-> << >>]

\* RunWatcherApp.__init__, RepoList.__init__, RunsList.__init__
RunWatcherApp_init ==
    /\ app = "init"
    /\ github_client = "None"
    /\ saved = << >>
    /\ repos = << >>
    /\ latest = [r \in Repos |-> NoRun]
    /\ latest_by = [r \in Repos |-> "nobody"]
    /\ current_repo = NoRepo
    /\ runs_panel = << >>
    /\ rf = NoRefresh

\* the application's poller as constructed; no function is called on its own
Init ==
    /\ RunPoller_init
    /\ RunWatcherApp_init
    /\ fn = NoCall
    /\ stopReq = FALSE
    /\ pc2 = "idle"
    /\ tick2 = 0

\* ------------------------------------------------- calls from the UI thread
\* RunPoller.add_repository: set.add.  A new member lands in a slot the live
\* iterator has not passed yet or, once the iterator has moved, possibly in
\* one it has passed already (the slot depends on the string's hash).
set_add(r) ==
    /\ (r \notin watched_repos /\ pc \in IterStates) => uiops < MaxCycleOps
    /\ watched_repos' = watched_repos \cup {r}
    /\ IF r \notin watched_repos /\ pc \in IterStates
       THEN /\ \/ si_rest' = si_rest \cup {r}
               \/ si_started /\ si_rest' = si_rest
            /\ mutated' = TRUE
            /\ uiops' = uiops + 1
       ELSE UNCHANGED <<si_rest, mutated, uiops>>
    /\ dropped' = [dropped EXCEPT ![r] = "no"]

\* RunPoller.add_repository, called on the poller alone
add_repository(r) ==
    /\ set_add(r)
    /\ UNCHANGED <<callbacks, running, pc, si_used, si_started, repo_name,
                   runs, cb_idx, tick, cycleHist, stopAt, ticksAfterStop, fetchedAfterStop>>
    /\ UNCHANGED elsewhere

\* remove_repository that leaves the set as it was
remove_repository_Keeps(r) ==
    /\ UNCHANGED <<watched_repos, si_rest, mutated, uiops>>
    /\ dropped' = IF r \in watched_repos
                  THEN [dropped EXCEPT ![r] = IF phase = "none" THEN "out" ELSE "mid"]
                  ELSE dropped
    /\ UNCHANGED <<callbacks, running, pc, si_used, si_started, repo_name,
                   runs, cb_idx, tick, cycleHist, stopAt, ticksAfterStop,
                   fetchedAfterStop>>
    /\ UNCHANGED elsewhere

\* RunPoller.remove_repository: set.discard
remove_repository(r) ==
    /\ (r \in watched_repos /\ pc \in IterStates) => uiops < MaxCycleOps
    /\ watched_repos' = watched_repos \ {r}
    /\ IF r \in watched_repos /\ pc \in IterStates
       THEN /\ si_rest' = si_rest \ {r}
            /\ mutated' = TRUE
            /\ uiops' = uiops + 1
       ELSE UNCHANGED <<si_rest, mutated, uiops>>
    /\ dropped' = IF r \in watched_repos
                  THEN [dropped EXCEPT ![r] = IF phase = "none" THEN "out" ELSE "mid"]
                  ELSE dropped
    /\ UNCHANGED <<callbacks, running, pc, si_used, si_started, repo_name,
                   runs, cb_idx, tick, cycleHist, stopAt, ticksAfterStop, fetchedAfterStop>>
    /\ UNCHANGED elsewhere

\* RunPoller.on_update: list.append
on_update(s) ==
    /\ Len(callbacks) < Len(SubOrder)
    /\ s = SubOrder[Len(callbacks) + 1]
    /\ callbacks' = Append(callbacks, s)
    /\ UNCHANGED <<watched_repos, running, pollerVars, cycleHist, mutated,
                   uiops, dropped, stopAt, ticksAfterStop, fetchedAfterStop>>
    /\ UNCHANGED elsewhere

\* the part of start() it stands in: "cycle" once poll_once has started a
\* fetch, "sleep" in the ticks between two cycles, "loop" otherwise
StopPoint ==
    CASE pc \in IterStates /\ fetchlog # << >> -> "cycle"
      [] pc \in {"sleep", "tick"} -> "sleep"
      [] OTHER -> "loop"

\* RunPoller.stop
stop ==
    /\ running' = FALSE
    /\ stopAt' = IF stopAt = "no" /\ running /\ pc \in BodyStates
                 THEN StopPoint ELSE stopAt
    /\ UNCHANGED <<watched_repos, callbacks, pollerVars, cycleHist, mutated,
                   uiops, dropped, ticksAfterStop, fetchedAfterStop>>
    /\ UNCHANGED elsewhere

\* --------------------------------------------- RunPoller.start, poll_once
uiHist == <<mutated, uiops, dropped>>

\* app.py start_poller: the worker thread is created and will run start()
start_poller ==
    /\ pc = "idle"
    /\ pc' = "launched"
    /\ UNCHANGED <<watched_repos, callbacks, running, si_used, si_rest,
                   si_started, repo_name, runs, cb_idx, tick, cycleHist,
                   uiHist, stopAt, ticksAfterStop, fetchedAfterStop>>
    /\ UNCHANGED elsewhere

\* start(): self.running = True
start ==
    /\ pc = "launched"
    /\ running' = TRUE
    /\ pc' = "while"
    /\ UNCHANGED <<watched_repos, callbacks, si_used, si_rest, si_started,
                   repo_name, runs, cb_idx, tick, cycleHist, uiHist,
                   stopAt, ticksAfterStop, fetchedAfterStop>>
    /\ UNCHANGED elsewhere

\* start() whose loop is `while True:`
WhileEnter_IgnoresStop ==
    /\ pc = "while"
    /\ pc' = "poll"
    /\ UNCHANGED <<watched_repos, callbacks, running, si_used, si_rest,
                   si_started, repo_name, runs, cb_idx, tick, cycleHist,
                   uiHist, stopAt, ticksAfterStop, fetchedAfterStop>>
    /\ UNCHANGED elsewhere

\* start(): `while self.running:` is true, a cycle begins
WhileEnter ==
    /\ pc = "while"
    /\ running
    /\ pc' = "poll"
    /\ UNCHANGED <<watched_repos, callbacks, running, si_used, si_rest,
                   si_started, repo_name, runs, cb_idx, tick, cycleHist,
                   uiHist, stopAt, ticksAfterStop, fetchedAfterStop>>
    /\ UNCHANGED elsewhere

\* start(): `while self.running:` is false, start() returns
WhileExit ==
    /\ pc = "while"
    /\ ~running
    /\ pc' = "returned"
    /\ UNCHANGED <<watched_repos, callbacks, running, si_used, si_rest,
                   si_started, repo_name, runs, cb_idx, tick, cycleHist,
                   uiHist, stopAt, ticksAfterStop, fetchedAfterStop>>
    /\ UNCHANGED elsewhere

\* poll_once: `for repo_name in self.watched_repos` creates the iterator of
\* the live set (no copy is taken)
poll_once ==
    /\ pc = "poll"
    /\ pc' = "next"
    /\ si_used' = Cardinality(watched_repos)
    /\ si_rest' = watched_repos
    /\ si_started' = FALSE
    /\ phase' = "cycle"
    /\ startSet' = watched_repos
    /\ startSubs' = callbacks
    /\ fetchlog' = << >>
    /\ result' = [r \in Repos |-> NotFetched]
    /\ log' = << >>
    /\ mutated' = FALSE
    /\ uiops' = 0
    /\ dropped' = [r \in Repos |-> IF dropped[r] = "no" THEN "no" ELSE "out"]
    /\ UNCHANGED <<watched_repos, callbacks, running, repo_name, runs, cb_idx,
                   tick, stopAt, ticksAfterStop, fetchedAfterStop>>
    /\ UNCHANGED elsewhere

\* set iterator's __next__: "Set changed size during iteration".  The for
\* statement is outside poll_once's try, so the RuntimeError leaves
\* poll_once and start()
ForNextRaises ==
    /\ pc = "next"
    /\ Cardinality(watched_repos) # si_used
    /\ pc' = "failed"
    /\ phase' = "raised"
    /\ repo_name' = NoRepo
    /\ si_rest' = {}
    /\ si_used' = 0
    /\ si_started' = FALSE
    /\ UNCHANGED <<watched_repos, callbacks, running, runs, cb_idx, tick, startSet, startSubs,
                   fetchlog, result, log, uiHist, stopAt, ticksAfterStop, fetchedAfterStop>>
    /\ UNCHANGED elsewhere

\* set iterator's __next__ yields the member in the next occupied slot
ForNextYields ==
    /\ pc = "next"
    /\ Cardinality(watched_repos) = si_used
    /\ \E r \in si_rest :
         /\ repo_name' = r
         /\ si_rest' = si_rest \ {r}
         /\ fetchlog' = Append(fetchlog, r)
    /\ si_started' = TRUE
    /\ pc' = "fetch"
    /\ fetchedAfterStop' = (fetchedAfterStop \/ stopAt = "cycle")
    /\ UNCHANGED <<watched_repos, callbacks, running, si_used, runs, cb_idx,
                   tick, phase, startSet, startSubs, result, log, uiHist,
                   stopAt, ticksAfterStop>>
    /\ UNCHANGED elsewhere

\* poll_once whose for loop also ends as soon as self.running is false
ForNextStops_OnStop ==
    /\ pc = "next"
    /\ Cardinality(watched_repos) = si_used
    /\ si_rest = {} \/ ~running
    /\ pc' = "sleep"
    /\ tick' = 0
    /\ phase' = "done"
    /\ repo_name' = NoRepo
    /\ si_used' = 0
    /\ si_started' = FALSE
    /\ UNCHANGED <<watched_repos, callbacks, running, si_rest, runs, cb_idx,
                   startSet, startSubs, fetchlog, result, log, uiHist, stopAt,
                   ticksAfterStop, fetchedAfterStop>>
    /\ UNCHANGED elsewhere

\* set iterator exhausted: poll_once returns, start() goes on to
\* `for _ in range(self.interval)`
ForNextStops ==
    /\ pc = "next"
    /\ Cardinality(watched_repos) = si_used
    /\ si_rest = {}
    /\ pc' = "sleep"
    /\ tick' = 0
    /\ phase' = "done"
    /\ repo_name' = NoRepo
    /\ si_used' = 0
    /\ si_started' = FALSE
    /\ UNCHANGED <<watched_repos, callbacks, running, si_rest, runs, cb_idx,
                   startSet, startSubs, fetchlog,
                   result, log, uiHist, stopAt, ticksAfterStop, fetchedAfterStop>>
    /\ UNCHANGED elsewhere

\* poll_once: get_recent_runs(repo_name, 10) returned in the executor
FetchReturns ==
    /\ pc = "fetch"
    /\ \E resp \in SourceResponses :
         LET res == get_recent_runs(resp, PollLimit) IN
         /\ res.kind = "return"
         /\ runs' = res.value
         /\ result' = [result EXCEPT ![repo_name] = res]
    /\ cb_idx' = 1
    /\ pc' = "notify"
    /\ UNCHANGED <<watched_repos, callbacks, running, si_used, si_rest,
                   si_started, repo_name, tick, phase, startSet, startSubs,
                   fetchlog, log, uiHist, stopAt, ticksAfterStop, fetchedAfterStop>>
    /\ UNCHANGED elsewhere

\* poll_once without the try around the fetch: the exception leaves it
FetchRaises_Propagates ==
    /\ pc = "fetch"
    /\ \E resp \in SourceResponses : get_recent_runs(resp, PollLimit).kind = "raise"
    /\ result' = [result EXCEPT ![repo_name] = Raise]
    /\ pc' = "failed"
    /\ phase' = "raised"
    /\ UNCHANGED <<watched_repos, callbacks, running, si_used, si_rest,
                   si_started, repo_name, runs, cb_idx, tick, startSet,
                   startSubs, fetchlog, log, uiHist, stopAt, ticksAfterStop,
                   fetchedAfterStop>>
    /\ UNCHANGED elsewhere

\* poll_once: get_recent_runs raised; `except Exception` prints and the for
\* loop goes on to the next repository
FetchRaises ==
    /\ pc = "fetch"
    /\ \E resp \in SourceResponses : get_recent_runs(resp, PollLimit).kind = "raise"
    /\ result' = [result EXCEPT ![repo_name] = Raise]
    /\ pc' = "next"
    /\ UNCHANGED <<watched_repos, callbacks, running, si_used, si_rest,
                   si_started, repo_name, runs, cb_idx, tick, phase, startSet,
                   startSubs, fetchlog, log, uiHist, stopAt, ticksAfterStop, fetchedAfterStop>>
    /\ UNCHANGED elsewhere

\* poll_once that walks self.callbacks from its end
Invocation_Reversed(raised) ==
    [sub |-> callbacks[Len(callbacks) + 1 - cb_idx], repo |-> repo_name,
     runs |-> runs, raised |-> raised, fetch |-> Len(fetchlog)]

\* callback(repo_name, runs) for the callback the list iterator stands at,
\* within the delivery of the cycle's fetch number `fetch`
Invocation(raised) ==
    [sub |-> callbacks[cb_idx], repo |-> repo_name, runs |-> runs,
     raised |-> raised, fetch |-> Len(fetchlog)]

\* poll_once: callback(repo_name, runs) returned, on to the next callback
CallbackReturns ==
    /\ pc = "notify"
    /\ cb_idx <= Len(callbacks)
    /\ log' = Append(log, Invocation(FALSE))
    /\ cb_idx' = cb_idx + 1
    /\ UNCHANGED <<watched_repos, callbacks, running, pc, si_used, si_rest,
                   si_started, repo_name, runs, tick, phase, startSet,
                   startSubs, fetchlog, result, uiHist, stopAt,
                   ticksAfterStop, fetchedAfterStop>>
    /\ UNCHANGED elsewhere

\* poll_once without the try around the callbacks: the exception leaves it
CallbackRaises_Propagates ==
    /\ pc = "notify"
    /\ cb_idx <= Len(callbacks)
    /\ log' = Append(log, Invocation(TRUE))
    /\ pc' = "failed"
    /\ phase' = "raised"
    /\ UNCHANGED <<watched_repos, callbacks, running, si_used, si_rest,
                   si_started, repo_name, runs, cb_idx, tick, startSet,
                   startSubs, fetchlog, result, uiHist, stopAt,
                   ticksAfterStop, fetchedAfterStop>>
    /\ UNCHANGED elsewhere

\* poll_once: callback(repo_name, runs) raised.  The try encloses the whole
\* `for callback` loop, so the except clause ends that loop and the for loop
\* over the repositories goes on
CallbackRaises ==
    /\ pc = "notify"
    /\ cb_idx <= Len(callbacks)
    /\ log' = Append(log, Invocation(TRUE))
    /\ runs' = << >>
    /\ cb_idx' = 0
    /\ pc' = "next"
    /\ UNCHANGED <<watched_repos, callbacks, running, si_used, si_rest,
                   si_started, repo_name, tick, phase, startSet, startSubs,
                   fetchlog, result, uiHist, stopAt, ticksAfterStop, fetchedAfterStop>>
    /\ UNCHANGED elsewhere

\* poll_once: the list iterator of self.callbacks is exhausted
NotifyDone ==
    /\ pc = "notify"
    /\ cb_idx > Len(callbacks)
    /\ runs' = << >>
    /\ cb_idx' = 0
    /\ pc' = "next"
    /\ UNCHANGED <<watched_repos, callbacks, running, si_used, si_rest,
                   si_started, repo_name, tick, phase, startSet, startSubs,
                   fetchlog, result, log, uiHist, stopAt, ticksAfterStop, fetchedAfterStop>>
    /\ UNCHANGED elsewhere

\* the history of the finished cycle is dropped when start() moves on
ForgetCycle ==
    /\ phase' = "none"
    /\ startSet' = {}
    /\ startSubs' = << >>
    /\ fetchlog' = << >>
    /\ result' = [r \in Repos |-> NotFetched]
    /\ log' = << >>
    /\ mutated' = FALSE
    /\ uiops' = 0

\* start() that sleeps without looking at self.running
SleepEnter_NoCheck ==
    /\ pc = "sleep"
    /\ tick < Interval
    /\ pc' = "tick"
    /\ ForgetCycle
    /\ UNCHANGED <<watched_repos, callbacks, running, si_used, si_rest,
                   si_started, repo_name, runs, cb_idx, tick, dropped,
                   stopAt, ticksAfterStop, fetchedAfterStop>>
    /\ UNCHANGED elsewhere

\* start(): `for _ in range(self.interval)` has a next value and
\* `if not self.running` is false: await asyncio.sleep(1) begins
SleepEnter ==
    /\ pc = "sleep"
    /\ tick < Interval
    /\ running
    /\ pc' = "tick"
    /\ ForgetCycle
    /\ UNCHANGED <<watched_repos, callbacks, running, si_used, si_rest,
                   si_started, repo_name, runs, cb_idx, tick, dropped,
                   stopAt, ticksAfterStop, fetchedAfterStop>>
    /\ UNCHANGED elsewhere

\* start(): `if not self.running: break`
SleepBreak ==
    /\ pc = "sleep"
    /\ tick < Interval
    /\ ~running
    /\ pc' = "while"
    /\ ForgetCycle
    /\ UNCHANGED <<watched_repos, callbacks, running, si_used, si_rest,
                   si_started, repo_name, runs, cb_idx, tick, dropped,
                   stopAt, ticksAfterStop, fetchedAfterStop>>
    /\ UNCHANGED elsewhere

\* start(): range(self.interval) is exhausted
SleepOver ==
    /\ pc = "sleep"
    /\ tick >= Interval
    /\ pc' = "while"
    /\ ForgetCycle
    /\ UNCHANGED <<watched_repos, callbacks, running, si_used, si_rest,
                   si_started, repo_name, runs, cb_idx, tick, dropped,
                   stopAt, ticksAfterStop, fetchedAfterStop>>
    /\ UNCHANGED elsewhere

\* start(): asyncio.sleep(1) is over
SleepTick ==
    /\ pc = "tick"
    /\ tick' = tick + 1
    /\ pc' = "sleep"
    /\ ticksAfterStop' = IF stopAt # "no" THEN ticksAfterStop + 1 ELSE ticksAfterStop
    /\ UNCHANGED <<watched_repos, callbacks, running, si_used, si_rest,
                   si_started, repo_name, runs, cb_idx, cycleHist, uiHist,
                   stopAt, fetchedAfterStop>>
    /\ UNCHANGED elsewhere

Next ==
    \/ \E r \in Repos : add_repository(r)
    \/ \E r \in Repos : remove_repository(r)
    \/ \E s \in Subs : on_update(s)
    \/ stop
    \/ start_poller
    \/ start
    \/ WhileEnter
    \/ WhileExit
    \/ poll_once
    \/ ForNextRaises
    \/ ForNextYields
    \/ ForNextStops
    \/ FetchReturns
    \/ FetchRaises
    \/ CallbackReturns
    \/ CallbackRaises
    \/ NotifyDone
    \/ SleepEnter
    \/ SleepBreak
    \/ SleepOver
    \/ SleepTick

Spec == Init /\ [][Next]_vars

TypeOK ==
    /\ watched_repos \subseteq Repos
    /\ Range(callbacks) \subseteq Subs \cup {"handle_poll_update"}
    /\ running \in BOOLEAN
    /\ pc \in {"idle", "launched", "returned", "failed"} \cup BodyStates
    /\ si_rest \subseteq watched_repos
    /\ repo_name \in Repos \cup {NoRepo}
    /\ tick \in 0..Interval

\* ------------------------------------------------- reading the cycle history
\* subscriber s was invoked with (r, v) in the cycle
InvokedWith(s, r, v) ==
    \E i \in 1..Len(log) : log[i].sub = s /\ log[i].repo = r /\ log[i].runs = v

\* how many times subscriber s was invoked for repository r in the cycle
Deliveries(s, r) ==
    Cardinality({i \in 1..Len(log) : log[i].sub = s /\ log[i].repo = r})

\* how many times the fetch of repository r was started in the cycle
Fetches(r) == Cardinality({i \in 1..Len(fetchlog) : fetchlog[i] = r})

\* some subscriber raised while handling repository r in the cycle
RaisedOn(r) == \E i \in 1..Len(log) : log[i].repo = r /\ log[i].raised

FetchRaised == \E r \in Repos : result[r] = Raise

SubscriberRaised == \E r \in Repos : RaisedOn(r)

\* position of subscriber s in the registration order of the cycle
Position(s) == CHOOSE i \in 1..Len(startSubs) : startSubs[i] = s

\* ------------------------------------------------------------------ claims

\* C1: per-repository isolation.  A fetch that raises never makes poll_once
\* raise, and in a cycle over an unchanged watch set every repository A of
\* the set is fetched once and, its fetch having returned and no subscriber
\* having raised on A, every registered subscriber is invoked with
\* (A, runs of A), whatever the fetches of the other repositories did.
C1_PerRepoIsolation ==
    /\ (phase = "raised" /\ FetchRaised) => mutated
    /\ (phase = "done" /\ ~mutated) =>
         \A a \in startSet :
           /\ Fetches(a) = 1
           /\ (result[a].kind = "return" /\ ~RaisedOn(a)) =>
                \A s \in Range(startSubs) : InvokedWith(s, a, result[a].value)

\* C1 witness: the fetch of B raised first, then A was fetched and delivered
\* to both subscribers, and poll_once returned.
C1_Witness ==
    /\ phase = "done" /\ ~mutated
    /\ Len(startSubs) = 2
    /\ \E a, b \in startSet :
         /\ fetchlog = <<b, a>>
         /\ result[b] = Raise
         /\ result[a] = Return(<<2, 1>>)
         /\ \A s \in Range(startSubs) : InvokedWith(s, a, <<2, 1>>)

\* C2: subscriber isolation.  When a subscriber raises on (repo, runs), every
\* subscriber registered after it is still invoked with the same (repo, runs)
\* in that cycle.
C2_SubscriberIsolation ==
    phase = "done" =>
      \A i \in 1..Len(log) :
        (log[i].raised /\ log[i].sub \in Range(startSubs)) =>
          \A s \in Range(startSubs) :
            Position(s) > Position(log[i].sub) =>
              InvokedWith(s, log[i].repo, log[i].runs)

\* C3: a subscriber that raises on one repository does not abort the cycle.
\* It never makes poll_once raise, and in a cycle over an unchanged watch set
\* every repository is still fetched once and, its fetch having returned,
\* handed to the subscribers (the first registered one is invoked with it).
C3_SubscriberErrorContained ==
    /\ (phase = "raised" /\ SubscriberRaised) => mutated
    /\ (phase = "done" /\ ~mutated /\ SubscriberRaised) =>
         \A a \in startSet :
           /\ Fetches(a) = 1
           /\ (result[a].kind = "return" /\ startSubs # << >>) =>
                InvokedWith(startSubs[1], a, result[a].value)

\* C3 witness: a subscriber raised on the first repository, the second one
\* was fetched and delivered afterwards, and poll_once returned.
C3_Witness ==
    /\ phase = "done" /\ ~mutated
    /\ Len(log) >= 2
    /\ log[1].raised
    /\ log[2].repo # log[1].repo
    /\ Cardinality(startSet) = 2

\* C4: nothing raised inside the polling loop reaches the caller of start(),
\* and start() completes only after stop() was requested.
C4_NothingPropagates ==
    /\ pc # "failed"
    /\ pc = "returned" => stopAt # "no"

\* C5: a cycle processes exactly the watch set's membership at its start,
\* whatever add_repository / remove_repository do while it is in flight.
C5_SnapshotPerCycle ==
    /\ phase \in {"cycle", "done", "raised"} => Range(fetchlog) \subseteq startSet
    /\ phase \in {"done", "raised"} => Range(fetchlog) = startSet

\* C6: in a completed cycle every repository of the watch set at the cycle's
\* start is delivered exactly once to each registered subscriber, whatever
\* its fetch did.
C6_ExactlyOnceDelivery ==
    phase = "done" =>
      \A r \in startSet : \A s \in Range(startSubs) : Deliveries(s, r) = 1

\* C7: stop responsiveness.  Once stop() has been called on the running
\* poller no new cycle begins (the loop test of start() never succeeds
\* again), while the cycle in flight leaves poll_once only by finishing its
\* iteration.
C7_StopResponsiveness ==
    [][stopAt # "no" =>
         /\ ~(pc = "while" /\ pc' = "poll")
         /\ (pc \in IterStates /\ pc' \notin IterStates) => pc' \in {"sleep", "failed"}
         /\ (pc = "returned" => pc' = "returned")]_vars

\* C7 witness: stop() came while a cycle was in flight, the cycle finished
\* and start() returned.
C7_Witness ==
    /\ stopAt = "cycle"
    /\ pc = "returned"

\* C8 as claimed: once stop() has been requested while a cycle is in flight,
\* the fetch of no further repository of that cycle is started.
C8_StopBetweenFetches ==
    ~fetchedAfterStop

\* C8 as amended: stop() is not observed between the fetches of a cycle.
\* With stop() requested mid-cycle, poll_once still goes on to the fetch of
\* every repository its iteration has left and ends only when the iteration
\* does; the stop is observed after poll_once, before the first sleep tick.
C8_StopAfterCycle ==
    [][(stopAt = "cycle" /\ pc = "next" /\ pc' # "next") =>
         /\ (si_rest # {} /\ Cardinality(watched_repos) = si_used) => pc' = "fetch"
         /\ pc' = "sleep" => (si_rest = {} /\ tick' = 0)
         /\ pc' \in {"fetch", "sleep", "failed"}]_vars

\* C8 witness: a fetch was started after a stop() that came mid-cycle.
C8_Witness ==
    /\ stopAt = "cycle"
    /\ fetchedAfterStop
    /\ pc = "fetch"

\* C9: the sleep between cycles is made of at most `interval` one-second
\* ticks, each begun only after the stop flag was found clear, so at most
\* one tick elapses after stop().
C9_SleepTicks ==
    /\ tick <= Interval
    /\ pc = "tick" => tick < Interval
    /\ ticksAfterStop <= 1
    /\ (pc = "tick" /\ stopAt # "no") => ticksAfterStop = 0

\* C9 witness: stop() came during the sleep phase, one more tick elapsed and
\* start() returned before the interval was over.
C9_Witness ==
    /\ stopAt = "sleep"
    /\ ticksAfterStop = 1
    /\ pc = "returned"
    /\ tick < Interval

\* C10: scenario D.  A repository that was added and then removed before a
\* cycle began, and not added again, is neither fetched nor delivered in
\* that cycle.
C10_RemovedNotPolled ==
    /\ \A i \in 1..Len(fetchlog) : dropped[fetchlog[i]] # "out"
    /\ \A i \in 1..Len(log) : dropped[log[i].repo] # "out"
    /\ pc \in {"fetch", "notify"} => dropped[repo_name] # "out"

\* C10 witness: a cycle ran to its end, fetching and delivering another
\* repository, while a repository removed before it began stayed removed.
C10_Witness ==
    /\ phase = "done"
    /\ \E r \in Repos : dropped[r] = "out" /\ r \notin startSet
    /\ log # << >>

\* position of subscriber s in self.callbacks
Registered(s) == CHOOSE i \in 1..Len(callbacks) : callbacks[i] = s

\* C12: within the delivery of one (repo, runs) update the subscribers are
\* invoked in registration order, one after the other: a subscriber invoked
\* earlier in the delivery was registered earlier and had returned.
C12_RegistrationOrder ==
    \A i, j \in 1..Len(log) :
      (i < j /\ log[i].fetch = log[j].fetch) =>
        /\ Registered(log[i].sub) < Registered(log[j].sub)
        /\ ~log[i].raised
        /\ log[i].repo = log[j].repo /\ log[i].runs = log[j].runs

\* C12 witness: one update was delivered to the first registered subscriber
\* and then to the second.
C12_Witness ==
    /\ callbacks = SubOrder
    /\ \E i \in 1..Len(log) :
         /\ i + 1 <= Len(log)
         /\ log[i].fetch = log[i + 1].fetch
         /\ log[i].sub = SubOrder[1] /\ log[i + 1].sub = SubOrder[2]
         /\ log[i].runs = <<2, 1>>

\* C13: a subscriber registered while a cycle is in flight receives no
\* delivery of that cycle (every invocation of a cycle goes to a subscriber
\* registered when the cycle began), and receives the deliveries of a later
\* cycle like every subscriber registered before it.
C13_RegistrationNextCycle ==
    /\ \A i \in 1..Len(log) : log[i].sub \in Range(startSubs)
    /\ (phase = "done" /\ ~mutated) =>
         \A r \in startSet : \A s \in Range(startSubs) :
           (result[r].kind = "return" /\ ~RaisedOn(r)) =>
             InvokedWith(s, r, result[r].value)

\* ------------------------------------------- functions called on their own
\* Python's None
None == "None"

\* RunInfo.status
Statuses == {"queued", "in_progress", "completed"}

\* RunInfo.conclusion: None, or one of the conclusions GitHub reports
Conclusions == {None, "success", "failure", "cancelled", "skipped", "timed_out",
                "action_required", "neutral", "stale"}

\* the fields of RunInfo that display_status reads
RunInfos == [status : Statuses, conclusion : Conclusions]

\* Python's truth value of an Optional[str]
Truthy(x) == x \notin {None, ""}

\* RunInfo.display_status that reports the conclusion whatever the status
display_status_ConclusionOnly(run) ==
    IF Truthy(run.conclusion) THEN run.conclusion ELSE "unknown"

\* RunInfo.display_status
display_status(run) ==
    IF run.status # "completed" THEN run.status
    ELSE IF Truthy(run.conclusion) THEN run.conclusion ELSE "unknown"

\* the `limit` arguments get_recent_runs is called with: poll_once's, and
\* limits shorter than what the source holds
Limits == {1, 2, PollLimit}

\* what the source can answer to one get_recent_runs call
RunResponses ==
    [get_repo : CallOutcomes, get_workflow_runs : CallOutcomes,
     runs : RunLists \cup {<<3, 2, 1>>}]

\* names of the jobs of a run, and of the steps of a job by step number
JobNames == <<"build", "test">>

StepNames == <<"checkout", "test", "deploy", "publish">>

\* steps per job in the source's answers
MaxSteps == 2

\* conclusions of a step
StepConclusions == {"success", "failure", "timed_out", "action_required", "skipped"}

\* the conclusions get_run_failures reports
FailureConclusions == {"failure", "timed_out", "action_required"}

\* the steps of a job: step i has number i and the i-th step name
StepLists ==
    UNION {[1..n -> StepConclusions] : n \in 0..MaxSteps}

Steps(cs) ==
    [i \in 1..Len(cs) |->
       [name |-> StepNames[((i - 1) % Len(StepNames)) + 1],
        conclusion |-> cs[i], number |-> i]]

Jobs == {[name |-> JobNames[k], steps |-> Steps(cs)] :
           k \in 1..Len(JobNames), cs \in StepLists}

\* run.jobs(): at most one job per job name slot, names may repeat
JobLists == UNION {[1..n -> Jobs] : n \in 0..Len(JobNames)}

\* what the source can answer to one get_run_failures call
FailureResponses ==
    [get_repo : CallOutcomes, get_workflow_run : CallOutcomes, jobs : JobLists]

\* the JobFailure dataclass
JobFailure(job_name, step_name, conclusion, number) ==
    [job_name |-> job_name, step_name |-> step_name,
     conclusion |-> conclusion, number |-> number]

\* get_run_failures: `for step in job.steps`, appending to `failures`
RECURSIVE StepLoop(_, _, _)
StepLoop(job, steps, failures) ==
    IF steps = << >> THEN failures
    ELSE LET step == Head(steps) IN
         StepLoop(job, Tail(steps),
                  IF step.conclusion \in FailureConclusions
                  THEN Append(failures,
                              JobFailure(job.name, step.name, step.conclusion,
                                         step.number))
                  ELSE failures)

\* get_run_failures: `for job in jobs`
RECURSIVE JobLoop(_, _)
JobLoop(jobs, failures) ==
    IF jobs = << >> THEN failures
    ELSE JobLoop(Tail(jobs), StepLoop(Head(jobs), Head(jobs).steps, failures))

\* get_run_failures that goes through the jobs from the last to the first
get_run_failures_JobsReversed(resp) ==
    LET repo == get_repository(resp)
        n == Len(resp.jobs) IN
    CASE repo.kind = "raise" -> Raise
      [] repo.value = None -> Return(<< >>)
      [] resp.get_workflow_run = "github_exception" -> Return(<< >>)
      [] resp.get_workflow_run = "other_exception" -> Raise
      [] OTHER -> Return(JobLoop([i \in 1..n |-> resp.jobs[n + 1 - i]], << >>))

\* GitHubClient.get_run_failures: [] for an unknown repository or a
\* GithubException, the failed steps otherwise; any other exception is not
\* caught here
get_run_failures(resp) ==
    LET repo == get_repository(resp) IN
    CASE repo.kind = "raise" -> Raise
      [] repo.value = None -> Return(<< >>)
      [] resp.get_workflow_run = "github_exception" -> Return(<< >>)
      [] resp.get_workflow_run = "other_exception" -> Raise
      [] OTHER -> Return(JobLoop(resp.jobs, << >>))

\* ------------------------------------------------ config.py: repos.json
\* the text of the file as JSON tokens: punctuation and null, string
\* literals, and text that is no JSON token
P(c) == [t |-> "p", v |-> c]

Str(v) == [t |-> "s", v |-> v]

Junk == [t |-> "x", v |-> "watched_repos = acme/widgets"]

\* Python values json.load gives: None, a str, a list of str, or a dict
\* whose values are of these
Val(kind, str, items) == [kind |-> kind, str |-> str, items |-> items]

Dict(entries) == [kind |-> "dict", entries |-> entries]

ParseError == [ok |-> FALSE]

Parsed(val, rest) == [ok |-> TRUE, val |-> val, rest |-> rest]

\* json: the rest of an array after "[": strings separated by commas
RECURSIVE ParseItems(_, _, _)
ParseItems(ts, acc, afterItem) ==
    IF ts = << >> THEN ParseError
    ELSE IF afterItem
    THEN CASE Head(ts) = P("]") -> Parsed(Val("list", "", acc), Tail(ts))
           [] Head(ts) = P(",") /\ Len(ts) >= 2 /\ ts[2].t = "s" ->
                ParseItems(Tail(Tail(ts)), Append(acc, ts[2].v), TRUE)
           [] OTHER -> ParseError
    ELSE CASE Head(ts) = P("]") -> Parsed(Val("list", "", acc), Tail(ts))
           [] Head(ts).t = "s" -> ParseItems(Tail(ts), <<Head(ts).v>>, TRUE)
           [] OTHER -> ParseError

\* json: null, a string or an array of strings at the head of the tokens
ParseSimple(ts) ==
    IF ts = << >> THEN ParseError
    ELSE CASE Head(ts) = P("null") -> Parsed(Val("null", "", << >>), Tail(ts))
           [] Head(ts).t = "s" -> Parsed(Val("str", Head(ts).v, << >>), Tail(ts))
           [] Head(ts) = P("[") -> ParseItems(Tail(ts), << >>, FALSE)
           [] OTHER -> ParseError

\* json: the rest of an object after "{": key ":" value, separated by commas
RECURSIVE ParseMembers(_, _, _)
ParseMembers(ts, acc, afterMember) ==
    LET member(us) ==
          IF Len(us) >= 2 /\ us[1].t = "s" /\ us[2] = P(":")
          THEN LET v == ParseSimple(Tail(Tail(us))) IN
               IF v.ok
               THEN ParseMembers(v.rest,
                                 Append(acc, [key |-> us[1].v, val |-> v.val]),
                                 TRUE)
               ELSE ParseError
          ELSE ParseError
    IN
    IF ts = << >> THEN ParseError
    ELSE IF Head(ts) = P("}") THEN Parsed(Dict(acc), Tail(ts))
    ELSE IF afterMember
    THEN IF Head(ts) = P(",") THEN member(Tail(ts)) ELSE ParseError
    ELSE member(ts)

\* json.load: the whole text is one value, or JSONDecodeError
json_load(ts) ==
    LET p == IF ts # << >> /\ Head(ts) = P("{")
             THEN ParseMembers(Tail(ts), << >>, FALSE)
             ELSE ParseSimple(ts) IN
    IF p.ok /\ p.rest = << >> THEN p ELSE ParseError

\* json.dump of a list of str
RECURSIVE DumpItems(_)
DumpItems(items) ==
    IF items = << >> THEN << >>
    ELSE IF Len(items) = 1 THEN <<Str(items[1])>>
    ELSE <<Str(items[1]), P(",")>> \o DumpItems(Tail(items))

\* json.dump({"watched_repos": repos}, f, indent=2)
json_dump(names) ==
    <<P("{"), Str("watched_repos"), P(":"), P("[")>> \o DumpItems(names)
      \o <<P("]"), P("}")>>

\* dict.get(key, default): the last member of that key wins in json.load
RECURSIVE dict_get(_, _, _)
dict_get(entries, key, default) ==
    IF entries = << >> THEN default
    ELSE LET last == entries[Len(entries)] IN
         IF last.key = key THEN last.val
         ELSE dict_get(SubSeq(entries, 1, Len(entries) - 1), key, default)

\* the file: missing; there but not openable (IOError); there with bytes
\* that are no text (UnicodeDecodeError); or there with text
NoFile == [state |-> "missing", text |-> << >>]

File(ts) == [state |-> "text", text |-> ts]

\* lists of repository names save_watched_repos is given
MaxSaved == 2

RepoSeqs == UNION {[1..n -> Repos] : n \in 0..MaxSaved}

\* what can be in the file when it is loaded: what a save wrote, and
\* contents that are no watch list
ConfigFiles ==
    {NoFile, [state |-> "unreadable", text |-> << >>],
     [state |-> "binary", text |-> << >>]}
    \cup {File(json_dump(l)) : l \in RepoSeqs}
    \cup {File(<< >>), File(<<Junk>>), File(<<P("{")>>),
          File(<<P("{"), Str("watched_repos"), P(":"), P("[")>>),
          File(json_dump(<<"acme/widgets">>) \o <<P("}")>>),
          File(<<P("null")>>), File(<<Str("acme/widgets")>>),
          File(<<P("["), Str("acme/widgets"), P("]")>>),
          File(<<P("{"), P("}")>>),
          File(<<P("{"), Str("repos"), P(":"), P("["), Str("acme/widgets"),
                 P("]"), P("}")>>),
          File(<<P("{"), Str("watched_repos"), P(":"), P("null"), P("}")>>),
          File(<<P("{"), Str("watched_repos"), P(":"), Str("acme/widgets"),
                 P("}")>>),
          File(<<P("{"), Str("watched_repos"), P(":"), P("["), P("]"), P(","),
                 Str("watched_repos"), P(":"), P("["), Str("acme/gadgets"),
                 P("]"), P("}")>>)}

\* Config.load_watched_repos: [] when the file is missing, when open fails
\* (IOError) and when json.load fails (JSONDecodeError); data.get on the
\* loaded value; the value of "watched_repos" if it is a list, else [].
\* Nothing catches UnicodeDecodeError, nor the AttributeError of a loaded
\* value that has no get
load_watched_repos(file) ==
    CASE file.state = "missing" -> Return(<< >>)
      [] file.state = "unreadable" -> Return(<< >>)
      [] file.state = "binary" -> Raise
      [] OTHER ->
           LET data == json_load(file.text) IN
           IF ~data.ok THEN Return(<< >>)
           ELSE IF data.val.kind # "dict" THEN Raise
           ELSE LET found == dict_get(data.val.entries, "watched_repos",
                                      Val("list", "", << >>)) IN
                IF found.kind = "list" THEN Return(found.items)
                ELSE Return(<< >>)

\* what the write of a save can do: succeed; fail in open (the file is as it
\* was); fail after open(..., "w") truncated the file
WriteOutcomes == {"ok", "open_fails", "write_fails"}

\* save_watched_repos that opens the file for appending
save_watched_repos_Appends(file, names, io) ==
    CASE io = "ok" -> File(file.text \o json_dump(names))
      [] io = "open_fails" -> file
      [] OTHER -> File(file.text)

\* Config.save_watched_repos: the file after the call; an IOError is printed
save_watched_repos(file, names, io) ==
    CASE io = "ok" -> File(json_dump(names))
      [] io = "open_fails" -> file
      [] OTHER -> File(<< >>)

\* the files a save can find in place
FilesBefore ==
    {NoFile, File(<<Junk>>), File(json_dump(<<"acme/gadgets", "acme/widgets">>))}

\* two saves in a row, then a load
SaveCalls ==
    [before : FilesBefore, first : RepoSeqs, io1 : WriteOutcomes,
     second : RepoSeqs, io2 : WriteOutcomes]

\* a call is chosen: the function and its argument
FnInit ==
    /\ RunPoller_init
    /\ RunWatcherApp_init
    /\ stopReq = FALSE
    /\ pc2 = "idle"
    /\ tick2 = 0
    /\ \/ \E run \in RunInfos :
            fn = [op |-> "display_status", arg |-> run, done |-> FALSE]
       \/ \E resp \in RunResponses : \E limit \in Limits :
            fn = [op |-> "get_recent_runs",
                  arg |-> [resp |-> resp, limit |-> limit], done |-> FALSE]
       \/ \E resp \in FailureResponses :
            fn = [op |-> "get_run_failures", arg |-> resp, done |-> FALSE]
       \/ \E file \in ConfigFiles :
            fn = [op |-> "load_watched_repos", arg |-> file, done |-> FALSE]
       \/ \E call \in SaveCalls :
            fn = [op |-> "save_watched_repos", arg |-> call, done |-> FALSE]

\* the poller is not running while a function is called on its own
pollerAll == <<watched_repos, callbacks, running, pollerVars, cycleHist,
               uiHist, stopAt, ticksAfterStop, fetchedAfterStop>>

\* run.display_status is read
Call_display_status ==
    /\ fn.op = "display_status" /\ ~fn.done
    /\ fn' = [op |-> fn.op, arg |-> fn.arg, done |-> TRUE,
              out |-> display_status(fn.arg)]
    /\ UNCHANGED <<pollerAll, appVars, stopReq, pc2, tick2>>

\* client.get_recent_runs(repo, limit) is called
Call_get_recent_runs ==
    /\ fn.op = "get_recent_runs" /\ ~fn.done
    /\ fn' = [op |-> fn.op, arg |-> fn.arg, done |-> TRUE,
              out |-> get_recent_runs(fn.arg.resp, fn.arg.limit)]
    /\ UNCHANGED <<pollerAll, appVars, stopReq, pc2, tick2>>

\* client.get_run_failures(repo, run_id) is called
Call_get_run_failures ==
    /\ fn.op = "get_run_failures" /\ ~fn.done
    /\ fn' = [op |-> fn.op, arg |-> fn.arg, done |-> TRUE,
              out |-> get_run_failures(fn.arg)]
    /\ UNCHANGED <<pollerAll, appVars, stopReq, pc2, tick2>>

\* config.load_watched_repos() is called
Call_load_watched_repos ==
    /\ fn.op = "load_watched_repos" /\ ~fn.done
    /\ fn' = [op |-> fn.op, arg |-> fn.arg, done |-> TRUE,
              out |-> load_watched_repos(fn.arg)]
    /\ UNCHANGED <<pollerAll, appVars, stopReq, pc2, tick2>>

\* config.save_watched_repos is called twice and load_watched_repos after
Call_save_watched_repos ==
    /\ fn.op = "save_watched_repos" /\ ~fn.done
    /\ LET a == fn.arg
           f1 == save_watched_repos(a.before, a.first, a.io1)
           f2 == save_watched_repos(f1, a.second, a.io2) IN
       fn' = [op |-> fn.op, arg |-> a, done |-> TRUE,
              out |-> [file |-> f2, loaded |-> load_watched_repos(f2)]]
    /\ UNCHANGED <<pollerAll, appVars, stopReq, pc2, tick2>>

FnNext ==
    \/ Call_display_status
    \/ Call_get_recent_runs
    \/ Call_get_run_failures
    \/ Call_load_watched_repos
    \/ Call_save_watched_repos

FnSpec == FnInit /\ [][FnNext]_vars

\* the call of function `op` has been made
Called(op) == fn.op = op /\ fn.done

\* C16: get_recent_runs never raises: for an unknown repository or a failure
\* of an underlying call, of whatever kind, it returns the empty list, and
\* otherwise the first `limit` runs of the source, in the source's order.
C16_FetchNeverRaises ==
    Called("get_recent_runs") =>
      LET resp == fn.arg.resp
          limit == fn.arg.limit
          n == Min(limit, Len(resp.runs)) IN
      /\ fn.out.kind = "return"
      /\ IF resp.get_repo = "ok" /\ resp.get_workflow_runs = "ok"
         THEN /\ Len(fn.out.value) = n
              /\ \A i \in 1..n : fn.out.value[i] = resp.runs[i]
         ELSE fn.out.value = << >>

\* C18: display_status is the status of a run that is not completed; of a
\* completed run it is the conclusion, and "unknown" exactly when the run has
\* no conclusion.
C18_ClassificationTotality ==
    Called("display_status") =>
      LET run == fn.arg IN
      /\ run.status # "completed" => fn.out = run.status
      /\ (run.status = "completed" /\ run.conclusion # None) =>
           fn.out = run.conclusion
      /\ (run.status = "completed" /\ run.conclusion = None) =>
           fn.out = "unknown"
      /\ (run.status = "completed" /\ fn.out = "unknown") =>
           run.conclusion = None

\* C18 witness: display_status was read on a completed run whose
\* conclusion is neither success nor failure, and gave that conclusion.
C18_Witness ==
    /\ Called("display_status")
    /\ fn.arg.status = "completed"
    /\ fn.arg.conclusion = "cancelled"
    /\ fn.out = "cancelled"

\* the (job, step) positions of the failed steps in a job list
FailedAt(jobs) ==
    {p \in UNION {{<<j, k>> : k \in 1..Len(jobs[j].steps)} : j \in 1..Len(jobs)} :
       jobs[p[1]].steps[p[2]].conclusion \in FailureConclusions}

\* position p comes before position q: job order, then step order
Before(p, q) == p[1] < q[1] \/ (p[1] = q[1] /\ p[2] < q[2])

\* C19: when the source answers, get_run_failures returns exactly the steps
\* whose conclusion is failure, timed_out or action_required, in job order
\* and then step order, none dropped, added or merged, each with its job
\* name, step name, conclusion and step number.
C19_FailureExtraction ==
    (/\ Called("get_run_failures")
     /\ fn.arg.get_repo = "ok" /\ fn.arg.get_workflow_run = "ok") =>
      LET jobs == fn.arg.jobs
          F == FailedAt(jobs) IN
      /\ fn.out.kind = "return"
      /\ Len(fn.out.value) = Cardinality(F)
      /\ \A p \in F :
           LET n == Cardinality({q \in F : Before(q, p)}) + 1
               job == jobs[p[1]]
               step == job.steps[p[2]] IN
           fn.out.value[n] = [job_name |-> job.name, step_name |-> step.name,
                              conclusion |-> step.conclusion,
                              number |-> p[2]]

\* C19 witness: the job "build" with steps checkout (success) and test
\* (failure) gave the one failure (build, test, failure, 2); and a run with
\* two jobs of the same name and the same failed step gave both.
C19_Witness ==
    /\ Called("get_run_failures")
    /\ fn.arg.get_repo = "ok" /\ fn.arg.get_workflow_run = "ok"
    /\ Len(fn.arg.jobs) = 2
    /\ fn.arg.jobs[1] = [name |-> "build",
                         steps |-> Steps(<<"success", "failure">>)]
    /\ fn.arg.jobs[2] = [name |-> "test",
                         steps |-> Steps(<<"timed_out", "action_required">>)]
    /\ fn.out = Return(<<JobFailure("build", "test", "failure", 2),
                         JobFailure("test", "checkout", "timed_out", 1),
                         JobFailure("test", "test", "action_required", 2)>>)

\* ------------------------------------------------------- the application
\* the bound method the application registers with the poller
AppSubscriber == "handle_poll_update"

\* what load_watched_repos can return at startup: nothing, two
\* repositories, or a file that names one repository twice
SavedLists == {<< >>, <<"acme/gadgets", "acme/widgets">>,
               <<"acme/widgets", "acme/widgets">>}

\* the default `limit` of get_recent_runs, which refresh_repo leaves in place
DefaultLimit == 10

\* `runs[0] if runs else None`
First(rs) == IF rs = << >> THEN NoRun ELSE rs[1]

\* RepoList.add_repository that appends without looking
RepoList_add_repository_NoCheck(list, r) == Append(list, r)

\* RepoList.add_repository: self.repos (and the children) after the call
RepoList_add_repository(list, r) ==
    IF r \in Range(list) THEN list ELSE Append(list, r)

\* load_saved_repositories: repo_list.add_repository for each saved name
RECURSIVE AddAll(_, _)
AddAll(list, names) ==
    IF names = << >> THEN list
    ELSE AddAll(RepoList_add_repository(list, Head(names)), Tail(names))

\* RepoList.update_repo_status: the first child of that name gets the run
update_repo_status(r, run) ==
    IF r \in Range(repos) THEN [latest EXCEPT ![r] = run] ELSE latest

\* the UI thread is free to run a handler: no handler is half way
UiFree == app = "mounted" /\ rf.st # "applying"

\* a new exclusive refresh_repo worker: the running one is cancelled
Refreshing(r) == [st |-> "fetching", repo |-> r, runs |-> << >>]

\* poller.stop() called by the application
poller_stop ==
    /\ running' = FALSE
    /\ stopAt' = IF stopAt = "no" /\ running /\ pc \in BodyStates
                 THEN StopPoint ELSE stopAt

\* why on_mount can fail: get_github_token found no token, or
\* GitHubClient(token) raised
StartupFailures == {"no_token", "client_raises"}

\* on_mount that exits on a failure and goes on all the same (no return)
on_mount_fails_NoReturn(why) ==
    /\ app = "init"
    /\ pc = "idle"
    /\ why \in StartupFailures
    /\ app' = "exited"
    /\ callbacks' = Append(callbacks, AppSubscriber)
    /\ pc' = "launched"
    /\ UNCHANGED <<watched_repos, running, si_used, si_rest, si_started,
                   repo_name, runs, cb_idx, tick, cycleHist, uiHist, stopAt,
                   ticksAfterStop, fetchedAfterStop>>
    /\ UNCHANGED <<aside, github_client, saved, repos, latest, latest_by,
                   current_repo, runs_panel, rf>>

\* on_mount without a token or without a client: self.exit(message) and
\* return, before the poller is made; on_unmount finds self.poller None
on_mount_fails(why) ==
    /\ app = "init"
    /\ why \in StartupFailures
    /\ app' = "exited"
    /\ UNCHANGED <<pollerAll, aside, github_client, saved, repos, latest,
                   latest_by, current_repo, runs_panel, rf>>

\* on_mount with a token and a client: the poller gets handle_poll_update,
\* start_poller launches the thread, load_saved_repositories adds each saved
\* repository to the list and to the poller and starts its refresh (each
\* refresh_repo cancels the one before: the last one is left running)
on_mount(names) ==
    /\ app = "init"
    /\ pc = "idle"
    /\ app' = "mounted"
    /\ github_client' = "client"
    /\ callbacks' = Append(callbacks, AppSubscriber)
    /\ pc' = "launched"
    /\ saved' = names
    /\ repos' = AddAll(repos, names)
    /\ watched_repos' = watched_repos \cup Range(names)
    /\ rf' = IF names = << >> THEN rf ELSE Refreshing(names[Len(names)])
    /\ UNCHANGED <<running, si_used, si_rest, si_started, repo_name, runs,
                   cb_idx, tick, cycleHist, uiHist, stopAt, ticksAfterStop,
                   fetchedAfterStop>>
    /\ UNCHANGED <<aside, latest, latest_by, current_repo, runs_panel>>

\* search_repositories that adds r to the list and not to the poller
search_repositories_NoPoller(r) ==
    /\ UiFree
    /\ repos' = RepoList_add_repository(repos, r)
    /\ saved' \in {repos', saved}
    /\ rf' = Refreshing(r)
    /\ UNCHANGED <<pollerAll, aside, github_client,
                   app, latest, latest_by, current_repo, runs_panel>>

\* search_repositories after the search returned r as its first match: the
\* list and the poller get r, the list is saved (a failed write is printed
\* and leaves the file), refresh_repo(r) starts
search_repositories(r) ==
    /\ UiFree
    /\ repos' = RepoList_add_repository(repos, r)
    /\ set_add(r)
    /\ saved' \in {repos', saved}
    /\ rf' = Refreshing(r)
    /\ UNCHANGED <<callbacks, running, pc, si_used, si_started, repo_name,
                   runs, cb_idx, tick, cycleHist, stopAt, ticksAfterStop,
                   fetchedAfterStop>>
    /\ UNCHANGED <<aside, github_client,
                   app, latest, latest_by, current_repo, runs_panel>>

\* search_repositories when the search found nothing: as an exclusive
\* worker it has cancelled the refresh that was running
search_repositories_none ==
    /\ UiFree
    /\ rf.st = "fetching"
    /\ rf' = NoRefresh
    /\ UNCHANGED <<pollerAll, aside, github_client,
                   app, saved, repos, latest, latest_by,
                   current_repo, runs_panel>>

\* on_list_view_selected on a RepoListItem
on_list_view_selected(r) ==
    /\ UiFree
    /\ r \in Range(repos)
    /\ current_repo' = r
    /\ rf' = Refreshing(r)
    /\ UNCHANGED <<pollerAll, aside, github_client,
                   app, saved, repos, latest, latest_by,
                   runs_panel>>

\* action_refresh: refresh_repo for every repository of the list, each
\* cancelling the one before
action_refresh ==
    /\ UiFree
    /\ repos # << >>
    /\ rf' = Refreshing(repos[Len(repos)])
    /\ UNCHANGED <<pollerAll, aside, github_client,
                   app, saved, repos, latest, latest_by,
                   current_repo, runs_panel>>

\* action_quit: poller.stop() and exit
action_quit ==
    /\ UiFree
    /\ poller_stop
    /\ app' = "exited"
    /\ rf' = NoRefresh
    /\ UNCHANGED <<watched_repos, callbacks, pollerVars, cycleHist, uiHist,
                   ticksAfterStop, fetchedAfterStop>>
    /\ UNCHANGED <<aside, github_client,
                   saved, repos, latest, latest_by, current_repo,
                   runs_panel>>

\* refresh_repo: get_recent_runs returned; repo_list.update_repo_status
RefreshUpdatesRepo ==
    /\ app = "mounted"
    /\ rf.st = "fetching"
    /\ \E resp \in SourceResponses :
         LET res == get_recent_runs(resp, DefaultLimit) IN
         /\ res.kind = "return"
         /\ rf' = [st |-> "applying", repo |-> rf.repo, runs |-> res.value]
         /\ latest' = update_repo_status(rf.repo, First(res.value))
    /\ latest_by' = [latest_by EXCEPT ![rf.repo] = "refresh"]
    /\ UNCHANGED <<pollerAll, aside, github_client,
                   app, saved, repos, current_repo, runs_panel>>

\* refresh_repo: `if self.current_repo == repo_name: runs_list.set_runs(runs)`
RefreshSetsRuns ==
    /\ app = "mounted"
    /\ rf.st = "applying"
    /\ runs_panel' = IF current_repo = rf.repo THEN rf.runs ELSE runs_panel
    /\ rf' = NoRefresh
    /\ UNCHANGED <<pollerAll, aside, github_client,
                   app, saved, repos, latest, latest_by,
                   current_repo>>

\* refresh_repo: get_recent_runs raised.  Nothing catches it in the worker,
\* and a worker that fails ends the application (exit_on_error), whose
\* on_unmount stops the poller
RefreshRaises ==
    /\ app = "mounted"
    /\ rf.st = "fetching"
    /\ \E resp \in SourceResponses :
         get_recent_runs(resp, DefaultLimit).kind = "raise"
    /\ rf' = NoRefresh
    /\ app' = "exited"
    /\ poller_stop
    /\ UNCHANGED <<watched_repos, callbacks, pollerVars, cycleHist, uiHist,
                   ticksAfterStop, fetchedAfterStop>>
    /\ UNCHANGED <<aside, github_client,
                   saved, repos, latest, latest_by, current_repo,
                   runs_panel>>

\* handle_poll_update, called by poll_once on the poller's thread:
\* repo_list.update_repo_status(repo_name, runs[0] if runs else None)
HandleUpdatesRepo ==
    /\ pc = "notify"
    /\ cb_idx <= Len(callbacks)
    /\ app = "mounted"
    /\ latest' = update_repo_status(repo_name, First(runs))
    /\ latest_by' = [latest_by EXCEPT ![repo_name] = "poll"]
    /\ pc' = "handle"
    /\ UNCHANGED <<watched_repos, callbacks, running, si_used, si_rest,
                   si_started, repo_name, runs, cb_idx, tick, cycleHist,
                   uiHist, stopAt, ticksAfterStop, fetchedAfterStop>>
    /\ UNCHANGED <<aside, github_client,
                   app, saved, repos, current_repo, runs_panel, rf>>

\* handle_poll_update: `if self.current_repo == repo_name:` is false, the
\* callback returns
HandleSkipsRuns ==
    /\ pc = "handle"
    /\ current_repo # repo_name
    /\ log' = Append(log, Invocation(FALSE))
    /\ cb_idx' = cb_idx + 1
    /\ pc' = "notify"
    /\ UNCHANGED <<watched_repos, callbacks, running, si_used, si_rest,
                   si_started, repo_name, runs, tick, phase, startSet,
                   startSubs, fetchlog, result, uiHist, stopAt,
                   ticksAfterStop, fetchedAfterStop>>
    /\ UNCHANGED elsewhere

\* handle_poll_update: `if self.current_repo == repo_name:` is true; the
\* poller's thread goes on to query_one("#runs-list") while the UI thread
\* runs its handlers
HandleChecks ==
    /\ pc = "handle"
    /\ current_repo = repo_name
    /\ pc' = "setruns"
    /\ UNCHANGED <<watched_repos, callbacks, running, si_used, si_rest,
                   si_started, repo_name, runs, cb_idx, tick, cycleHist,
                   uiHist, stopAt, ticksAfterStop, fetchedAfterStop>>
    /\ UNCHANGED elsewhere

\* handle_poll_update: `runs_list.set_runs(runs)`, and the callback returns
HandleSetsRuns ==
    /\ pc = "setruns"
    /\ runs_panel' = runs
    /\ log' = Append(log, Invocation(FALSE))
    /\ cb_idx' = cb_idx + 1
    /\ pc' = "notify"
    /\ UNCHANGED <<watched_repos, callbacks, running, si_used, si_rest,
                   si_started, repo_name, runs, tick, phase, startSet,
                   startSubs, fetchlog, result, uiHist, stopAt,
                   ticksAfterStop, fetchedAfterStop>>
    /\ UNCHANGED <<aside, github_client,
                   app, saved, repos, latest, latest_by, current_repo, rf>>

\* handle_poll_update once the application has exited: the widgets are not
\* there, query_one raises, `except Exception: pass`
HandleIgnored ==
    /\ pc = "notify"
    /\ cb_idx <= Len(callbacks)
    /\ app = "exited"
    /\ log' = Append(log, Invocation(FALSE))
    /\ cb_idx' = cb_idx + 1
    /\ UNCHANGED <<watched_repos, callbacks, running, pc, si_used, si_rest,
                   si_started, repo_name, runs, tick, phase, startSet,
                   startSubs, fetchlog, result, uiHist, stopAt,
                   ticksAfterStop, fetchedAfterStop>>
    /\ UNCHANGED elsewhere

\* the application: the UI thread's handlers and workers, and the poller's
\* thread running start()
AppNext ==
    \/ \E names \in SavedLists : on_mount(names)
    \/ \E why \in StartupFailures : on_mount_fails(why)
    \/ \E r \in Repos : search_repositories(r)
    \/ search_repositories_none
    \/ \E r \in Repos : on_list_view_selected(r)
    \/ action_refresh
    \/ action_quit
    \/ RefreshUpdatesRepo
    \/ RefreshSetsRuns
    \/ RefreshRaises
    \/ HandleUpdatesRepo
    \/ HandleSkipsRuns
    \/ HandleChecks
    \/ HandleSetsRuns
    \/ HandleIgnored
    \/ start
    \/ WhileEnter
    \/ WhileExit
    \/ poll_once
    \/ ForNextRaises
    \/ ForNextYields
    \/ ForNextStops
    \/ FetchReturns
    \/ FetchRaises
    \/ NotifyDone
    \/ SleepEnter
    \/ SleepBreak
    \/ SleepOver
    \/ SleepTick

AppSpec == Init /\ [][AppNext]_vars

AppTypeOK ==
    /\ TypeOK
    /\ app \in {"init", "mounted", "exited"}
    /\ github_client \in {"None", "client"}
    /\ Range(repos) \subseteq Repos
    /\ watched_repos \subseteq Range(repos)
    /\ current_repo \in Range(repos) \cup {NoRepo}
    /\ runs_panel \in RunLists
    /\ rf.st \in {"idle", "fetching", "applying"}
    /\ rf.st # "idle" => rf.repo \in Range(repos)

\* no name occurs twice in the list
NoDuplicates(list) ==
    \A i, j \in 1..Len(list) : i # j => list[i] # list[j]

\* C11: adding a repository that is already watched adds nothing: the UI
\* repository list never holds a name twice, every listed repository was
\* added to the watch set once, and a cycle over an unchanged watch set
\* fetches each watched repository once and delivers it at most once to
\* the application's subscriber.
C11_IdempotentReAdd ==
    /\ NoDuplicates(repos)
    /\ Cardinality(watched_repos) <= Len(repos)
    /\ (phase = "done" /\ ~mutated) =>
         \A r \in startSet :
           /\ Fetches(r) = 1
           /\ Deliveries(AppSubscriber, r) <= 1

\* C11 witness: the saved list named one repository twice, so it was added
\* twice at startup; the list shows it once and a finished cycle fetched
\* and delivered it once.
C11_Witness ==
    /\ Len(saved) = 2 /\ saved[1] = saved[2]
    /\ repos = <<saved[1]>>
    /\ watched_repos = {saved[1]}
    /\ phase = "done" /\ ~mutated
    /\ Fetches(saved[1]) = 1
    /\ Deliveries(AppSubscriber, saved[1]) = 1

\* the refresh_repo worker finishes in this step
RefreshFinishes == rf.st = "applying" /\ rf'.st = "idle"

\* handle_poll_update is past update_repo_status and has not returned
Handling == pc \in {"handle", "setruns"}

\* handle_poll_update returns in this step
HandleFinishes == Handling /\ pc' = "notify"

\* C14: a refresh publishes its result to the poller's subscribers: when
\* refresh_repo finishes, every callback registered on the poller has been
\* invoked by it with the refreshed repository and the runs it fetched.
C14_RefreshPublishes ==
    [][RefreshFinishes =>
         \A s \in Range(callbacks) :
           \E i \in (Len(log) + 1)..Len(log') :
             /\ log'[i].sub = s
             /\ log'[i].repo = rf.repo
             /\ log'[i].runs = rf.runs]_vars

\* after this step the selected repository r shows the result rs, in its
\* entry of the repository list and in the runs list
Shows(r, rs) ==
    current_repo = r => (latest'[r] = First(rs) /\ runs_panel' = rs)

\* C15: last write wins: once a poll update and a refresh of the selected
\* repository have both been applied, the display shows the result that
\* was applied last: when handle_poll_update returns and no refresh is
\* half applied, the entry and the runs list show the poll's result; when
\* refresh_repo finishes and no poll update is half applied, they show the
\* refresh's result.
C15_LastWriteWins ==
    [][/\ (HandleFinishes /\ rf.st # "applying") => Shows(repo_name, runs)
       /\ (RefreshFinishes /\ ~Handling) => Shows(rf.repo, rf.runs)]_vars

\* C17: after a cycle over an unchanged watch set in which the fetch of a
\* listed repository failed or gave no runs, and whose entry no refresh has
\* written since the poller last did, the entry shows no latest run.
C17_FailedLikeEmpty ==
    (app = "mounted" /\ phase = "done" /\ ~mutated) =>
      \A r \in startSet :
        (/\ result[r] \in {Raise, Return(<< >>)}
         /\ latest_by[r] # "refresh") =>
          latest[r] = NoRun

\* C20: the widgets are written in the UI's context only: a step that
\* changes a repository's latest run or the runs list is no step of the
\* poller's thread.
C20_UiContext ==
    [][(latest' # latest \/ runs_panel' # runs_panel) =>
         UNCHANGED pollerVars]_vars

\* C21: no poller without a usable source: as long as the application has
\* no client (no token was found, or the client could not be made) there is
\* no poller thread, no subscriber and no running flag; wherever the poller
\* has been launched or is running, the application's client is the one
\* that was constructed.
C21_NoPollerWithoutClient ==
    /\ github_client = "None" =>
         (pc = "idle" /\ ~running /\ callbacks = << >> /\ watched_repos = {})
    /\ (running \/ pc # "idle") => github_client = "client"

\* C21 witness: startup failed and the application has exited without a
\* client and without a poller.
C21_Witness ==
    /\ app = "exited"
    /\ github_client = "None"
    /\ pc = "idle"

\* the file holds a watch list: a JSON object whose "watched_repos" is a list
HoldsWatchList(file) ==
    /\ file.state = "text"
    /\ LET data == json_load(file.text) IN
       /\ data.ok
       /\ data.val.kind = "dict"
       /\ \E i \in 1..Len(data.val.entries) :
            data.val.entries[i].key = "watched_repos"
       /\ dict_get(data.val.entries, "watched_repos",
                   Val("null", "", << >>)).kind = "list"

\* C22: load_watched_repos never raises, and returns the empty list
\* whenever the file is missing or does not hold a watch list (no JSON, JSON
\* that is no object, no watched_repos key, or a value that is no list).
C22_LoadNeverRaises ==
    Called("load_watched_repos") =>
      /\ fn.out.kind = "return"
      /\ ~HoldsWatchList(fn.arg) => fn.out.value = << >>

\* C23: after a save that succeeded, load_watched_repos returns the names
\* that save was given, in their order, whatever the file held before and
\* whatever an earlier save wrote.
C23_SaveLoadRoundTrip ==
    (Called("save_watched_repos") /\ fn.arg.io2 = "ok") =>
      fn.out.loaded = Return(fn.arg.second)

\* C23 witness: a save of two names over a file that an earlier successful
\* save of another list had written was loaded back as those two names.
C23_Witness ==
    /\ Called("save_watched_repos")
    /\ fn.arg.io1 = "ok" /\ fn.arg.io2 = "ok"
    /\ fn.arg.first = <<"acme/widgets">>
    /\ fn.arg.second = <<"acme/gadgets", "acme/widgets">>
    /\ fn.out.loaded = Return(<<"acme/gadgets", "acme/widgets">>)

\* ------------------------------------------- stop() and a second start()
\* the poller with its subscribers fixed before the thread is launched,
\* repositories added and stop() called at any moment
request_stop ==
    /\ pc # "idle"
    /\ poller_stop
    /\ stopReq' = TRUE
    /\ UNCHANGED <<watched_repos, callbacks, pollerVars, cycleHist, uiHist,
                   ticksAfterStop, fetchedAfterStop>>
    /\ UNCHANGED <<fn, pc2, tick2, appVars>>

\* the steps of the thread that runs start()
PollerThread ==
    \/ start
    \/ WhileEnter
    \/ WhileExit
    \/ poll_once
    \/ ForNextRaises
    \/ ForNextYields
    \/ ForNextStops
    \/ FetchReturns
    \/ FetchRaises
    \/ CallbackReturns
    \/ CallbackRaises
    \/ NotifyDone
    \/ SleepEnter
    \/ SleepBreak
    \/ SleepOver
    \/ SleepTick

StopNext ==
    \/ \E r \in Repos : add_repository(r)
    \/ \E s \in Subs : pc = "idle" /\ on_update(s)
    \/ start_poller
    \/ request_stop
    \/ PollerThread

StopSpec == Init /\ [][StopNext]_vars

\* fetches and callbacks return and the thread is scheduled: a step of
\* start() that can be taken is taken
StopLive == StopSpec /\ WF_vars(PollerThread)

\* start() has ended: returned, or left by an exception
Ended == pc \in {"returned", "failed"}

\* C24: a stop() called after the thread was launched is never lost: the
\* loop ends and start() is left.
C24_StopNeverLost == stopReq ~> Ended

\* a second call of start() while the flag is False and the first loop has
\* not ended: `self.running = True`.  The stop() that came before it is
\* history
start_again ==
    /\ ~running
    /\ pc \in BodyStates
    /\ pc2 = "idle"
    /\ running' = TRUE
    /\ pc2' = "while"
    /\ stopAt' = "no"
    /\ ticksAfterStop' = 0
    /\ fetchedAfterStop' = FALSE
    /\ UNCHANGED <<watched_repos, callbacks, pollerVars, cycleHist, uiHist>>
    /\ UNCHANGED <<fn, stopReq, tick2, appVars>>

\* what the second start() leaves alone
notSecond == <<pollerAll, fn, stopReq, appVars>>

\* second start(): `while self.running:` is true
WhileEnter2 ==
    /\ pc2 = "while"
    /\ running
    /\ pc2' = "poll"
    /\ UNCHANGED <<tick2, notSecond>>

\* second start(): `while self.running:` is false, it returns
WhileExit2 ==
    /\ pc2 = "while"
    /\ ~running
    /\ pc2' = "returned"
    /\ UNCHANGED <<tick2, notSecond>>

\* second start(): `await self.poll_once()`, the whole cycle as one step
\* (its fetches and deliveries are not recorded)
poll_once2 ==
    /\ pc2 = "poll"
    /\ pc2' = "sleep"
    /\ tick2' = 0
    /\ UNCHANGED notSecond

\* second start(): the sleep loop goes on, await asyncio.sleep(1) begins
SleepEnter2 ==
    /\ pc2 = "sleep"
    /\ tick2 < Interval
    /\ running
    /\ pc2' = "tick"
    /\ UNCHANGED <<tick2, notSecond>>

\* second start(): `if not self.running: break`
SleepBreak2 ==
    /\ pc2 = "sleep"
    /\ tick2 < Interval
    /\ ~running
    /\ pc2' = "while"
    /\ UNCHANGED <<tick2, notSecond>>

\* second start(): range(self.interval) is exhausted
SleepOver2 ==
    /\ pc2 = "sleep"
    /\ tick2 >= Interval
    /\ pc2' = "while"
    /\ UNCHANGED <<tick2, notSecond>>

\* second start(): asyncio.sleep(1) is over
SleepTick2 ==
    /\ pc2 = "tick"
    /\ tick2' = tick2 + 1
    /\ pc2' = "sleep"
    /\ UNCHANGED notSecond

RestartNext ==
    \/ \E r \in Repos : add_repository(r)
    \/ \E s \in Subs : pc = "idle" /\ on_update(s)
    \/ start_poller
    \/ request_stop
    \/ PollerThread
    \/ start_again
    \/ WhileEnter2
    \/ WhileExit2
    \/ poll_once2
    \/ SleepEnter2
    \/ SleepBreak2
    \/ SleepOver2
    \/ SleepTick2

RestartSpec == Init /\ [][RestartNext]_vars

\* the first loop looks at self.running in this step and goes on
FirstLoopGoesOn ==
    \/ pc = "while" /\ pc' = "poll"
    \/ pc = "sleep" /\ pc' = "tick"

\* C25: a start() called after stop(), while the flag is False, leaves one
\* loop: the earlier loop ends at its next look at the flag, it begins no
\* further cycle and no further sleep tick beside the new loop.
C25_OneLoop == [][pc2 # "idle" => ~FirstLoopGoesOn]_vars

\* a step that changes the poller's watch set
WatchSetChanges == watched_repos' # watched_repos

\* the step of on_mount that loads the saved repositories
StartupLoads == app = "init" /\ app' = "mounted"

PanelReplaced == runs_panel' # runs_panel

\* the entry of repository r in the list gets a new status in this step
EntryChanged(r) == latest'[r] # latest[r]

\* C27: an update for a repository that is not the selected one leaves the
\* runs panel as it is and changes no entry but that repository's; the panel
\* is replaced only by the runs of the repository selected when set_runs is
\* applied.
C27_UpdateFrame ==
    [][/\ PanelReplaced =>
            \/ HandleFinishes /\ runs_panel' = runs /\ current_repo = repo_name
            \/ RefreshFinishes /\ runs_panel' = rf.runs /\ current_repo = rf.repo
       /\ \A r \in Repos : EntryChanged(r) =>
            \/ pc = "notify" /\ pc' = "handle" /\ r = repo_name
            \/ rf.st = "fetching" /\ rf'.st = "applying" /\ r = rf.repo]_vars

\* ------------------------------------------------------- the refresh worker
\* the steps of the refresh_repo worker that is running
RefreshWorker ==
    \/ RefreshUpdatesRepo
    \/ RefreshSetsRuns
    \/ RefreshRaises

\* the UI side of the application alone: startup, the user's actions
\* (every search finds a repository) and the refresh_repo worker
RefreshNext ==
    \/ \E names \in SavedLists : on_mount(names)
    \/ \E why \in StartupFailures : on_mount_fails(why)
    \/ \E r \in Repos : search_repositories(r)
    \/ \E r \in Repos : on_list_view_selected(r)
    \/ action_refresh
    \/ action_quit
    \/ RefreshWorker

RefreshSpec == Init /\ [][RefreshNext]_vars

\* get_recent_runs ends and the event loop runs the worker
RefreshLive == RefreshSpec /\ WF_vars(RefreshWorker)

\* C28: every repository of the UI list (each was given a refresh_repo call
\* when it was loaded or added, and again by action_refresh) eventually has
\* its status set by a refresh, unless the application exits: no refresh is
\* cancelled by the refresh started for another repository.
C28_AllRefreshed ==
    \A r \in Repos :
        (app = "mounted" /\ r \in Range(repos))
            ~> (latest_by[r] = "refresh" \/ app = "exited")

====
